---- MODULE Spec2Model ----
(***************************************************************************)
(* Capture session of mjpeg-grab.c and v4l2grab.c: device open, format     *)
(* negotiation (deviceInit), the read-wait-write loop (mainLoop,           *)
(* frameRead, rawWrite) and teardown.  The variable prog says which of the *)
(* two programs runs; deviceOpen, deviceInit, readInit, deviceUninit and   *)
(* deviceClose are the same code in both files.                            *)
(***************************************************************************)
EXTENDS Integers, Naturals, Sequences, FiniteSets, TLC

\* ---------------------------------------------------------------- bounds
\* largest frame_count given with -c (mjpeg-grab.c)
MaxFrames == 3
\* most interrupted-by-signal results one xioctl call sees
MaxEintr == 2
\* most select() timeouts of one run (v4l2grab.c); each one does count++
MaxTimeouts == 1
\* largest sizeimage of the small device formats
MaxCap == 2
\* largest buffer the End-Of-Image scan is run over on its own
ScanCap == 4

\* ------------------------------------------------------- program constants
\* v4l2grab.c mainLoop: count = 30
DefaultCount == 30
\* the End-Of-Image marker bytes compared in v4l2grab.c rawWrite
EOI_FF == 255
EOI_D9 == 217

\* the two marker bytes and one byte that is neither
Bytes == {EOI_FF, EOI_D9, 0}

Programs == {"mjpeg-grab", "v4l2grab"}

\* ------------------------------------------- unsigned int, 32 bits wide
\* An unsigned int is the pair <<high 16 bits, low 16 bits>>.
U32(x) == <<x \div 65536, x % 65536>>

\* the value of a pair whose high half is below 2^15
ToNat(a) == a[1] * 65536 + a[2]

\* a + 1 and a - 1 modulo 2^32
Inc32(a) ==
  IF a[2] < 65535 THEN <<a[1], a[2] + 1>> ELSE <<(a[1] + 1) % 65536, 0>>

Dec32(a) ==
  IF a[2] > 0 THEN <<a[1], a[2] - 1>> ELSE <<(a[1] + 65535) % 65536, 65535>>

Lt32(a, b) == a[1] < b[1] \/ (a[1] = b[1] /\ a[2] < b[2])

Le32(a, b) == a = b \/ Lt32(a, b)

\* x * y for 16-bit x and y, as <<high 16 bits, low 16 bits>>, by the
\* two bytes of y
Mul16(x, y) ==
  LET p0 == x * (y % 256)
      p1 == x * (y \div 256)
      s  == p0 + 256 * (p1 % 256)
  IN  <<(s \div 65536 + p1 \div 256) % 65536, s % 65536>>

\* a * b modulo 2^32
Mul32(a, b) ==
  LET ll == Mul16(a[2], b[2])
      hl == Mul16(a[1], b[2])
      lh == Mul16(a[2], b[1])
  IN  <<(ll[1] + hl[2] + lh[2]) % 65536, ll[2]>>

\* -------------------------------------------------------------- xioctl
\* the loop condition of xioctl: do r = v4l2_ioctl(..) while (-1 == r && EINTR == errno)
XioctlRetry_never(r, e) == FALSE

XioctlRetry_anyError(r, e) == r = -1

XioctlRetry(r, e) == r = -1 /\ e = "EINTR"

\* what one v4l2_ioctl call can report
IoctlOutcomes ==
  {[r |-> 0, errno |-> "none"]} \cup
  {[r |-> -1, errno |-> e] : e \in {"EINTR", "EINVAL", "EIO"}}

Capabilities == {"V4L2_CAP_VIDEO_CAPTURE", "V4L2_CAP_READWRITE"}

PixelFormats == {"V4L2_PIX_FMT_MJPEG", "V4L2_PIX_FMT_YUYV"}

\* ----------------------------------------------- buffer-size derivation
\* deviceInit, "Buggy driver paranoia": the struct after the two floors
Paranoia_min(f) ==
  LET min1 == Mul32(f.width, U32(2))
      bpl  == IF Lt32(min1, f.bytesperline) THEN min1 ELSE f.bytesperline
      min2 == Mul32(bpl, f.height)
      size == IF Lt32(min2, f.sizeimage) THEN min2 ELSE f.sizeimage
  IN  [f EXCEPT !.bytesperline = bpl, !.sizeimage = size]

Paranoia(f) ==
  LET min1 == Mul32(f.width, U32(2))
      bpl  == IF Lt32(f.bytesperline, min1) THEN min1 ELSE f.bytesperline
      min2 == Mul32(bpl, f.height)
      size == IF Lt32(f.sizeimage, min2) THEN min2 ELSE f.sizeimage
  IN  [f EXCEPT !.bytesperline = bpl, !.sizeimage = size]

\* the formats a device answers VIDIOC_S_FMT with
Format(w, h, b, s, p) ==
  [width |-> w, height |-> h, bytesperline |-> b, sizeimage |-> s,
   pixelformat |-> p]

\* small ones, whose frames the model holds byte by byte: one that leaves
\* both sizes to the floors, one that declares both, one of empty frames
SmallFormats ==
  {Format(U32(1), U32(1), U32(0), U32(0), p) : p \in PixelFormats}
  \cup {Format(U32(1), U32(0), U32(MaxCap), U32(MaxCap), p) : p \in PixelFormats}
  \cup {Format(U32(1), U32(0), U32(0), U32(0), p) : p \in PixelFormats}

\* one-byte frames, for the runs of 30 frames
TinyFormats ==
  {Format(U32(1), U32(0), U32(0), U32(s), p) : s \in {0, 1}, p \in PixelFormats}

\* values over the whole width of an unsigned int
WideValues ==
  {U32(0), U32(1), U32(2), U32(4), U32(640), <<16384, 1>>, <<32768, 0>>,
   <<49152, 0>>, <<65535, 65535>>}

WideFormats ==
  {Format(w, h, b, s, "V4L2_PIX_FMT_MJPEG") :
     w \in WideValues, h \in WideValues, b \in WideValues, s \in WideValues}

\* the struct as deviceInit fills it before VIDIOC_S_FMT (CLEAR, then the request)
RequestedFormat(w, h) ==
  Format(w, h, U32(0), U32(0), "V4L2_PIX_FMT_MJPEG")

\* ------------------------------------------------------------- the scan
\* img[i] of the C code; an index at or past the end of the buffer reads
\* whatever lies behind it (oob)
At(img, i, oob) == IF i < Len(img) THEN img[i + 1] ELSE oob

Max(a, b) == IF a > b THEN a ELSE b

\* size = i + 2 when the pair is found at i
EoiEnd_short(i) == i + 1

EoiEnd(i) == i + 2

\* rawWrite of v4l2grab.c, the loop over i: the size to write and the
\* highest index it inspected (-1: none)
RECURSIVE EoiScan(_, _, _, _, _)
EoiScan(img, length, i, oob, hi) ==
  IF i >= length
  THEN [size |-> length, hi |-> hi]
  ELSE IF At(img, i, oob) = EOI_FF
       THEN IF At(img, i + 1, oob) = EOI_D9
            THEN [size |-> EoiEnd(i), hi |-> Max(hi, i + 1)]
            ELSE EoiScan(img, length, i + 1, oob, Max(hi, i + 1))
       ELSE EoiScan(img, length, i + 1, oob, Max(hi, i))

\* the bytes that may lie behind the buffer, told apart only when the scan
\* gets to read there
BehindBuffer(img, length) ==
  IF EoiScan(img, length, 0, 0, -1).hi >= Len(img)
  THEN Bytes ELSE {0}

\* the first k bytes of img, read like the C code reads them
Prefix(img, k, oob) == [j \in 1..k |-> At(img, j - 1, oob)]

\* all byte strings of length k
RECURSIVE BytesOfLen(_)
BytesOfLen(k) ==
  IF k = 0 THEN {<<>>}
  ELSE {Append(s, b) : s \in BytesOfLen(k - 1), b \in Bytes}

\* the buffer after a read of payload p into it
Overwrite(buf, p) ==
  [j \in 1..Len(buf) |-> IF j <= Len(p) THEN p[j] ELSE buf[j]]

\* ------------------------------------------------------------- the state
VARIABLES
  prog,              \* which program runs
  frame_count,       \* mjpeg-grab.c: static unsigned int frame_count (-c)
  single_frame,      \* v4l2grab.c: static bool single_frame (-s)
  device,            \* the formats the device at deviceName answers with
  pc,                \* the call the process is at
  status,            \* exit status, "running" until exit() is called
  diag,              \* the diagnostic printed with a failing exit
  fd,                \* static int fd
  closeCalled,       \* v4l2_close(fd) has been called
  buffers,           \* struct buffer * buffers: <<>> is NULL, else one element
  freed,             \* free(buffers[0].start) and free(buffers) have run
  width, height,     \* static unsigned int width, height
  cap,               \* deviceInit: cap.capabilities after VIDIOC_QUERYCAP
  fmt,               \* deviceInit: struct v4l2_format fmt.fmt.pix
  dev,               \* the format the device answered VIDIOC_S_FMT with
  buffer_size,       \* the argument of readInit
  ioctlCalls,        \* v4l2_ioctl calls the running xioctl has made
  ioctlEintrs,       \* how many of them reported EINTR
  xret,              \* the last return of xioctl
  count,             \* mainLoop: unsigned int count
  numberOfTimeouts,  \* v4l2grab.c mainLoop: unsigned int numberOfTimeouts
  timeouts,          \* select() calls that returned 0 so far
  n,                 \* what the last v4l2_read returned
  rerrno,            \* the error the last v4l2_read reported, if it failed
  nReads,            \* v4l2_read calls that returned data
  nPolls,            \* mjpeg-grab.c mainLoop: poll calls made so far
  nReadCalls,        \* mjpeg-grab.c mainLoop: frameRead calls made so far
  nAppends,          \* fopen-fwrite-fclose cycles completed
  outLen,            \* bytes this run has appended to the output file
  lastBlock,         \* the bytes the last rawWrite handed to fwrite
  written,           \* how many of them fwrite wrote
  scanHi             \* highest index of img the last End-Of-Image scan read

vars ==
  <<prog, frame_count, single_frame, device, pc, status, diag, fd, closeCalled,
    buffers, freed, width, height, cap, fmt, dev, buffer_size, ioctlCalls,
    ioctlEintrs, xret, count, numberOfTimeouts, timeouts, n, rerrno, nReads,
    nPolls, nReadCalls, nAppends, outLen, lastBlock, written, scanHi>>

\* groups left alone by most actions
devVars == <<fd, closeCalled>>
memVars == <<buffers, freed>>
negVars == <<width, height, cap, fmt, dev, buffer_size>>
ioctlVars == <<ioctlCalls, ioctlEintrs, xret>>
loopVars == <<count, numberOfTimeouts, timeouts>>
readVars == <<n, rerrno, nReads>>
callVars == <<nPolls, nReadCalls>>
fileVars == <<nAppends, outLen, lastBlock, written, scanHi>>
cfgVars == <<prog, frame_count, single_frame, device>>

\* static unsigned int width / height, the defaults of each file
DefaultWidth(p) == IF p = "mjpeg-grab" THEN U32(1280) ELSE U32(640)
DefaultHeight(p) == IF p = "mjpeg-grab" THEN U32(720) ELSE U32(480)

\* dev before the device has answered
NoFormat == Format(U32(0), U32(0), U32(0), U32(0), "none")

NoXret == [request |-> "none", r |-> 0, errno |-> "none", calls |-> 0, eintrs |-> 0]

\* the state when main has parsed its options and is about to call deviceOpen
InitWith(p, fc, sf, d) ==
  /\ prog = p
  /\ frame_count = fc
  /\ single_frame = sf
  /\ device = d
  /\ pc = "deviceOpen"
  /\ status = "running"
  /\ diag = "none"
  /\ fd = -1
  /\ closeCalled = FALSE
  /\ buffers = <<>>
  /\ freed = FALSE
  /\ width = DefaultWidth(p)
  /\ height = DefaultHeight(p)
  /\ cap = {}
  /\ fmt = RequestedFormat(U32(0), U32(0))
  /\ dev = NoFormat
  /\ buffer_size = U32(0)
  /\ ioctlCalls = 0
  /\ ioctlEintrs = 0
  /\ xret = NoXret
  /\ count = U32(0)
  /\ numberOfTimeouts = 0
  /\ timeouts = 0
  /\ n = 0
  /\ rerrno = "none"
  /\ nReads = 0
  /\ nPolls = 0
  /\ nReadCalls = 0
  /\ nAppends = 0
  /\ outLen = 0
  /\ lastBlock = <<>>
  /\ written = 0
  /\ scanHi = -1

\* ------------------------------------------------------------ exit paths
\* exit(code): the process ends where it stands; nothing is freed or closed
Exit(code, msg) ==
  /\ pc' = "exited"
  /\ status' = code
  /\ diag' = msg

\* errno_exit(s): print s and exit(EXIT_FAILURE)
errno_exit(s) == Exit("EXIT_FAILURE", s)

\* ------------------------------------------------------------ deviceOpen
deviceOpen ==
  /\ pc = "deviceOpen"
  /\ \E o \in {"stat fails", "no chr device", "open fails", "ok"} :
       IF o = "stat fails" THEN Exit("EXIT_FAILURE", "Cannot identify") /\ fd' = fd
       ELSE IF o = "no chr device" THEN Exit("EXIT_FAILURE", "is no device") /\ fd' = fd
       ELSE IF o = "open fails" THEN Exit("EXIT_FAILURE", "Cannot open") /\ fd' = -1
       ELSE /\ fd' = 3
            /\ pc' = "VIDIOC_QUERYCAP"
            /\ UNCHANGED <<status, diag>>
  /\ UNCHANGED <<cfgVars, callVars, closeCalled, memVars, negVars, ioctlVars, loopVars,
                 readVars, fileVars>>

\* ---------------------------------------------------------------- xioctl
\* one v4l2_ioctl call made by xioctl(fd, req, ..), reporting o
IoctlCall(req, o) ==
  LET eintr == IF o.r = -1 /\ o.errno = "EINTR" THEN 1 ELSE 0 IN
  /\ eintr = 1 => ioctlEintrs < MaxEintr
  /\ IF XioctlRetry(o.r, o.errno)
     THEN /\ ioctlCalls' = ioctlCalls + 1
          /\ ioctlEintrs' = ioctlEintrs + eintr
          /\ xret' = xret
     ELSE /\ ioctlCalls' = 0
          /\ ioctlEintrs' = 0
          /\ xret' = [request |-> req, r |-> o.r, errno |-> o.errno,
                      calls |-> ioctlCalls + 1, eintrs |-> ioctlEintrs + eintr]

\* ------------------------------------------------------------ deviceInit
\* xioctl(fd, VIDIOC_QUERYCAP, &cap) and the two capability tests
QueryCap ==
  /\ pc = "VIDIOC_QUERYCAP"
  /\ \E o \in IoctlOutcomes, c \in SUBSET Capabilities :
       /\ IoctlCall("VIDIOC_QUERYCAP", o)
       /\ IF XioctlRetry(o.r, o.errno)
          THEN UNCHANGED <<pc, status, diag, cap>>
          ELSE IF o.r = -1
          THEN /\ IF o.errno = "EINVAL"
                  THEN Exit("EXIT_FAILURE", "is no V4L2 device")
                  ELSE errno_exit("VIDIOC_QUERYCAP")
               /\ cap' = cap
          ELSE /\ cap' = c
               /\ IF "V4L2_CAP_VIDEO_CAPTURE" \notin c
                  THEN Exit("EXIT_FAILURE", "is no video capture device")
                  ELSE IF "V4L2_CAP_READWRITE" \notin c
                  THEN Exit("EXIT_FAILURE", "does not support read i/o")
                  ELSE pc' = "VIDIOC_CROPCAP" /\ UNCHANGED <<status, diag>>
  /\ UNCHANGED <<cfgVars, callVars, devVars, memVars, width, height, fmt, dev,
                 buffer_size, loopVars, readVars, fileVars>>

\* xioctl(fd, VIDIOC_CROPCAP, &cropcap): 0 leads to the crop set, anything
\* else is ignored
CropCap ==
  /\ pc = "VIDIOC_CROPCAP"
  /\ \E o \in IoctlOutcomes :
       /\ IoctlCall("VIDIOC_CROPCAP", o)
       /\ pc' = IF XioctlRetry(o.r, o.errno) THEN pc
                ELSE IF o.r = 0 THEN "VIDIOC_S_CROP" ELSE "VIDIOC_S_FMT"
  /\ UNCHANGED <<cfgVars, callVars, status, diag, devVars, memVars, negVars, loopVars,
                 readVars, fileVars>>

\* the crop set with a default branch that leaves through errno_exit
SetCrop_fatal ==
  /\ pc = "VIDIOC_S_CROP"
  /\ \E o \in IoctlOutcomes :
       /\ IoctlCall("VIDIOC_S_CROP", o)
       /\ IF XioctlRetry(o.r, o.errno) THEN UNCHANGED <<pc, status, diag>>
          ELSE IF o.r = -1 /\ o.errno # "EINVAL" THEN errno_exit("VIDIOC_S_CROP")
          ELSE pc' = "VIDIOC_S_FMT" /\ UNCHANGED <<status, diag>>
  /\ UNCHANGED <<cfgVars, callVars, devVars, memVars, negVars, loopVars, readVars,
                 fileVars>>

\* xioctl(fd, VIDIOC_S_CROP, &crop): every error is ignored
SetCrop ==
  /\ pc = "VIDIOC_S_CROP"
  /\ \E o \in IoctlOutcomes :
       /\ IoctlCall("VIDIOC_S_CROP", o)
       /\ pc' = IF XioctlRetry(o.r, o.errno) THEN pc ELSE "VIDIOC_S_FMT"
  /\ UNCHANGED <<cfgVars, callVars, status, diag, devVars, memVars, negVars, loopVars,
                 readVars, fileVars>>

\* fmt.fmt.pix.pixelformat != V4L2_PIX_FMT_MJPEG
FormatRejected_never(f) == FALSE

FormatRejected(f) == f.pixelformat # "V4L2_PIX_FMT_MJPEG"

\* xioctl(fd, VIDIOC_S_FMT, &fmt), the pixel format test and the update of
\* width and height
SetFormat ==
  /\ pc = "VIDIOC_S_FMT"
  /\ \E o \in IoctlOutcomes, f \in device :
       /\ IoctlCall("VIDIOC_S_FMT", o)
       /\ IF XioctlRetry(o.r, o.errno)
          THEN UNCHANGED <<pc, status, diag, fmt, dev, width, height>>
          ELSE IF o.r = -1
          THEN /\ errno_exit("VIDIOC_S_FMT")
               /\ fmt' = RequestedFormat(width, height)
               /\ UNCHANGED <<dev, width, height>>
          ELSE /\ fmt' = f
               /\ dev' = f
               /\ IF FormatRejected(f)
                  THEN /\ Exit("EXIT_FAILURE", "Libv4l didn't accept MJPEG format")
                       /\ UNCHANGED <<width, height>>
                  ELSE /\ width' = f.width
                       /\ height' = f.height
                       /\ pc' = "VIDIOC_S_PARM"
                       /\ UNCHANGED <<status, diag>>
  /\ UNCHANGED <<cfgVars, callVars, devVars, memVars, cap, buffer_size, loopVars,
                 readVars, fileVars>>

\* xioctl(fd, VIDIOC_S_PARM, &frameint): a failure only prints a warning
SetParm ==
  /\ pc = "VIDIOC_S_PARM"
  /\ \E o \in IoctlOutcomes :
       /\ IoctlCall("VIDIOC_S_PARM", o)
       /\ pc' = IF XioctlRetry(o.r, o.errno) THEN pc ELSE "paranoia"
  /\ UNCHANGED <<cfgVars, callVars, status, diag, devVars, memVars, negVars, loopVars,
                 readVars, fileVars>>

\* "Buggy driver paranoia": the two floors, and the size handed to readInit
BufferSize ==
  /\ pc = "paranoia"
  /\ fmt' = Paranoia(fmt)
  /\ buffer_size' = Paranoia(fmt).sizeimage
  /\ pc' = "readInit"
  /\ UNCHANGED <<cfgVars, callVars, status, diag, devVars, memVars, width, height, cap,
                 dev, ioctlVars, loopVars, readVars, fileVars>>

\* readInit(buffer_size): calloc of the struct, malloc of the frame memory;
\* the memory comes with whatever bytes it held. deviceInit returns, and
\* the result of its last xioctl is gone with it.
readInit ==
  /\ pc = "readInit"
  /\ \E o \in {"calloc fails", "malloc fails", "ok"},
        mem \in BytesOfLen(ToNat(buffer_size)) :
       IF o = "calloc fails"
       THEN /\ Exit("EXIT_FAILURE", "Out of memory")
            /\ buffers' = <<>>
       ELSE IF o = "malloc fails"
       THEN /\ Exit("EXIT_FAILURE", "Out of memory")
            /\ buffers' = <<[start |-> <<>>, length |-> ToNat(buffer_size), ok |-> FALSE]>>
       ELSE /\ buffers' = <<[start |-> mem, length |-> ToNat(buffer_size), ok |-> TRUE]>>
            /\ pc' = "mainLoop"
            /\ UNCHANGED <<status, diag>>
  /\ xret' = NoXret
  /\ UNCHANGED <<cfgVars, callVars, devVars, freed, negVars,
                 ioctlCalls, ioctlEintrs, loopVars, readVars, fileVars>>

\* ------------------------------------------------------------- v4l2_read
\* what v4l2_read(fd, buffers[0].start, buffers[0].length) can report: an
\* error, or n <= length bytes of data
ReadOutcomes(length) ==
  {[n |-> -1, errno |-> e, data |-> <<>>] : e \in {"EAGAIN", "EIO", "EINTR"}}
  \cup UNION {{[n |-> k, errno |-> "none", data |-> d] : d \in BytesOfLen(k)} :
                k \in 0..length}

\* frameRead, switch (errno): case EAGAIN returns 0, every other case is
\* errno_exit("read")
ReadWouldBlock_orEIO(e) == e \in {"EAGAIN", "EIO"}

ReadWouldBlock(e) == e = "EAGAIN"

\* fopen(jpegFilename, "ab"): writing starts at the end of the file
FopenPosition_truncate(len) == 0

FopenPosition(len) == len

\* ------------------------------------------------- mjpeg-grab.c mainLoop
\* a for loop that tests count and leaves it as it is
ForStep_noDecrement ==
  /\ count' = count
  /\ pc' = IF Lt32(U32(0), count) THEN "poll" ELSE "deviceUninit"
  /\ UNCHANGED <<status, diag>>

\* the end of one pass of for (; count > 0; count--)
ForStep ==
  /\ count' = Dec32(count)
  /\ pc' = IF Lt32(U32(0), Dec32(count)) THEN "poll" ELSE "deviceUninit"
  /\ UNCHANGED <<status, diag>>

\* unsigned int count = frame_count, and the first test of the for loop
mainLoop_mjpeg ==
  /\ pc = "mainLoop"
  /\ count' = frame_count
  /\ pc' = IF Lt32(U32(0), frame_count) THEN "poll" ELSE "deviceUninit"
  /\ UNCHANGED <<cfgVars, callVars, status, diag, devVars, memVars, negVars, ioctlVars,
                 numberOfTimeouts, timeouts, readVars, fileVars>>

\* poll(&pfd, 1, -1): with no timeout it returns 1 (ready) or -1; on -1
\* errno_exit("poll") prints "poll error" with the errno, whichever it is
Poll ==
  /\ pc = "poll"
  /\ \E o \in {"EINTR", "EIO", "ready"} :
       IF o = "ready" THEN pc' = "frameRead" /\ UNCHANGED <<status, diag>>
       ELSE errno_exit(IF o = "EINTR" THEN "poll error EINTR" ELSE "poll error EIO")
  /\ nPolls' = nPolls + 1
  /\ UNCHANGED <<cfgVars, nReadCalls, devVars, memVars, negVars, ioctlVars, loopVars,
                 readVars, fileVars>>

\* rawWrite(img, length) of mjpeg-grab.c: fopen, fwrite of length bytes,
\* fclose; the result of fwrite is not looked at. ret is what the callers do
\* when it returns.
rawWrite_mjpeg(img, length, ret) ==
  \/ /\ errno_exit("raw write")
     /\ UNCHANGED <<fileVars, loopVars>>
  \/ \E w \in 0..length :
       /\ nAppends' = nAppends + 1
       /\ lastBlock' = Prefix(img, length, 0)
       /\ written' = w
       /\ outLen' = FopenPosition(outLen) + w
       /\ scanHi' = scanHi
       /\ ret

\* frameRead of mjpeg-grab.c with imageProcess and rawWrite, and the
\* count-- of mainLoop that follows its return
frameRead_mjpeg ==
  /\ pc = "frameRead"
  /\ \E rd \in ReadOutcomes(buffers[1].length) :
       /\ n' = rd.n
       /\ rerrno' = rd.errno
       /\ IF rd.n = -1
          THEN /\ IF ReadWouldBlock(rd.errno)
                  THEN ForStep /\ UNCHANGED <<numberOfTimeouts, timeouts>>
                  ELSE errno_exit("read") /\ UNCHANGED loopVars
               /\ UNCHANGED <<buffers, nReads, fileVars>>
          ELSE /\ buffers' = <<[buffers[1] EXCEPT
                                  !.start = Overwrite(buffers[1].start, rd.data)]>>
               /\ nReads' = nReads + 1
               /\ rawWrite_mjpeg(Overwrite(buffers[1].start, rd.data), rd.n,
                                 ForStep /\ UNCHANGED <<numberOfTimeouts, timeouts>>)
  /\ nReadCalls' = nReadCalls + 1
  /\ UNCHANGED <<cfgVars, nPolls, devVars, freed, negVars, ioctlVars>>

\* --------------------------------------------------- v4l2grab.c mainLoop
\* the test of while (count-- > 0) on count c
WhileTest(c) ==
  /\ count' = Dec32(c)
  /\ pc' = IF Lt32(U32(0), c) THEN "select" ELSE "deviceUninit"
  /\ UNCHANGED <<status, diag>>

\* mainLoop with a limit of one timeout
mainLoop_v4l2_limit ==
  /\ pc = "mainLoop"
  /\ numberOfTimeouts' = 1
  /\ WhileTest(IF single_frame THEN U32(1) ELSE U32(DefaultCount))
  /\ UNCHANGED <<cfgVars, callVars, devVars, memVars, negVars, ioctlVars,
                 timeouts, readVars, fileVars>>

\* numberOfTimeouts = 0, count = 30 or 1, and the first test of the while loop
mainLoop_v4l2 ==
  /\ pc = "mainLoop"
  /\ numberOfTimeouts' = 0
  /\ WhileTest(IF single_frame THEN U32(1) ELSE U32(DefaultCount))
  /\ UNCHANGED <<cfgVars, callVars, devVars, memVars, negVars, ioctlVars, timeouts,
                 readVars, fileVars>>

\* select(fd + 1, &fds, NULL, NULL, &tv) with tv = 1 s, and what the loop
\* does with its result before frameRead
Select ==
  /\ pc = "select"
  /\ \E o \in {"EINTR", "error", "timeout", "ready"} :
       IF o = "EINTR" THEN UNCHANGED <<pc, status, diag, loopVars>>
       ELSE IF o = "error" THEN errno_exit("select") /\ UNCHANGED loopVars
       ELSE IF o = "timeout"
       THEN /\ timeouts < MaxTimeouts
            /\ timeouts' = timeouts + 1
            /\ numberOfTimeouts' = numberOfTimeouts
            /\ IF numberOfTimeouts <= 0
               THEN /\ count' = Inc32(count)
                    /\ pc' = "frameRead"
                    /\ UNCHANGED <<status, diag>>
               ELSE /\ Exit("EXIT_FAILURE", "select timeout")
                    /\ count' = count
       ELSE pc' = "frameRead" /\ UNCHANGED <<status, diag, loopVars>>
  /\ UNCHANGED <<cfgVars, callVars, devVars, memVars, negVars, ioctlVars, readVars,
                 fileVars>>

\* rawWrite(img, length) of v4l2grab.c: fopen, the End-Of-Image scan, fwrite
\* of size bytes, fclose. A read of img at or past the end of the buffer
\* yields some byte oob.
rawWrite_v4l2(img, length, ret) ==
  \/ /\ errno_exit("raw write")
     /\ UNCHANGED <<fileVars, loopVars>>
  \/ \E oob \in BehindBuffer(img, length) :
       LET scan == EoiScan(img, length, 0, oob, -1) IN
       \E w \in 0..scan.size :
         /\ nAppends' = nAppends + 1
         /\ lastBlock' = Prefix(img, scan.size, oob)
         /\ written' = w
         /\ outLen' = FopenPosition(outLen) + w
         /\ scanHi' = scan.hi
         /\ ret

\* frameRead of v4l2grab.c with imageProcess and rawWrite; the value of
\* v4l2_read is only compared with -1, and rawWrite gets buffers[0].length.
\* Returning 0 continues the select loop, returning 1 leaves it for the
\* next test of the while loop.
frameRead_v4l2 ==
  /\ pc = "frameRead"
  /\ \E rd \in ReadOutcomes(buffers[1].length) :
       /\ n' = rd.n
       /\ rerrno' = rd.errno
       /\ IF rd.n = -1
          THEN /\ IF ReadWouldBlock(rd.errno)
                  THEN pc' = "select" /\ UNCHANGED <<status, diag>>
                  ELSE errno_exit("read")
               /\ UNCHANGED <<buffers, nReads, fileVars, loopVars>>
          ELSE /\ buffers' = <<[buffers[1] EXCEPT
                                  !.start = Overwrite(buffers[1].start, rd.data)]>>
               /\ nReads' = nReads + 1
               /\ rawWrite_v4l2(Overwrite(buffers[1].start, rd.data),
                                buffers[1].length,
                                WhileTest(count) /\ UNCHANGED <<numberOfTimeouts, timeouts>>)
  /\ UNCHANGED <<cfgVars, callVars, devVars, freed, negVars, ioctlVars>>

\* -------------------------------------------------------------- teardown
\* deviceUninit: free(buffers[0].start); free(buffers)
deviceUninit ==
  /\ pc = "deviceUninit"
  /\ freed' = TRUE
  /\ pc' = "deviceClose"
  /\ UNCHANGED <<cfgVars, callVars, status, diag, devVars, buffers, negVars, ioctlVars,
                 loopVars, readVars, fileVars>>

\* deviceClose: v4l2_close(fd); fd = -1 unless it failed
deviceClose ==
  /\ pc = "deviceClose"
  /\ closeCalled' = TRUE
  /\ \E r \in {0, -1} :
       IF r = -1 THEN errno_exit("close") /\ fd' = fd
       ELSE fd' = -1 /\ pc' = "exit" /\ UNCHANGED <<status, diag>>
  /\ UNCHANGED <<cfgVars, callVars, memVars, negVars, ioctlVars, loopVars, readVars,
                 fileVars>>

\* main: exit(EXIT_SUCCESS)
main_exit ==
  /\ pc = "exit"
  /\ Exit("EXIT_SUCCESS", "none")
  /\ UNCHANGED <<cfgVars, callVars, devVars, memVars, negVars, ioctlVars, loopVars,
                 readVars, fileVars>>

\* ------------------------------------------------------- specifications
\* mjpeg-grab.c
Init ==
  \E fc \in 0..MaxFrames : InitWith("mjpeg-grab", U32(fc), FALSE, SmallFormats)

Next ==
  \/ deviceOpen
  \/ QueryCap
  \/ CropCap
  \/ SetCrop
  \/ SetFormat
  \/ SetParm
  \/ BufferSize
  \/ readInit
  \/ mainLoop_mjpeg
  \/ Poll
  \/ frameRead_mjpeg
  \/ deviceUninit
  \/ deviceClose
  \/ main_exit

Spec == Init /\ [][Next]_vars

\* v4l2grab.c: one frame (-s) from a device with frames of up to MaxCap
\* bytes, or 30 frames from a device with one-byte frames
InitV4l2 ==
  \/ InitWith("v4l2grab", U32(1), TRUE, SmallFormats)
  \/ InitWith("v4l2grab", U32(1), FALSE, TinyFormats)

NextV4l2 ==
  \/ deviceOpen
  \/ QueryCap
  \/ CropCap
  \/ SetCrop
  \/ SetFormat
  \/ SetParm
  \/ BufferSize
  \/ readInit
  \/ mainLoop_v4l2
  \/ Select
  \/ frameRead_v4l2
  \/ deviceUninit
  \/ deviceClose
  \/ main_exit

SpecV4l2 == InitV4l2 /\ [][NextV4l2]_vars

\* the buffer-size derivation of deviceInit over the whole width of the
\* values a device can answer VIDIOC_S_FMT with
InitFmt ==
  \E p \in Programs, f \in WideFormats :
    /\ prog = p
    /\ frame_count = U32(1)
    /\ single_frame = FALSE
    /\ device = {f}
    /\ pc = "paranoia"
    /\ status = "running"
    /\ diag = "none"
    /\ fd = 3
    /\ closeCalled = FALSE
    /\ buffers = <<>>
    /\ freed = FALSE
    /\ width = f.width
    /\ height = f.height
    /\ cap = Capabilities
    /\ fmt = f
    /\ dev = f
    /\ buffer_size = U32(0)
    /\ ioctlCalls = 0
    /\ ioctlEintrs = 0
    /\ xret = [request |-> "VIDIOC_S_PARM", r |-> 0, errno |-> "none",
               calls |-> 1, eintrs |-> 0]
    /\ count = U32(0)
    /\ numberOfTimeouts = 0
    /\ timeouts = 0
    /\ n = 0
    /\ rerrno = "none"
    /\ nReads = 0
    /\ nPolls = 0
    /\ nReadCalls = 0
    /\ nAppends = 0
    /\ outLen = 0
    /\ lastBlock = <<>>
    /\ written = 0
    /\ scanHi = -1

NextFmt == BufferSize

SpecFmt == InitFmt /\ [][NextFmt]_vars

\* frameRead and rawWrite of v4l2grab.c on their own: the last pass of the
\* loop, with a buffer of any size up to ScanCap holding any bytes
InitScan ==
  \E len \in 0..ScanCap : \E mem \in BytesOfLen(len) :
    /\ prog = "v4l2grab"
    /\ frame_count = U32(1)
    /\ single_frame = TRUE
    /\ device = {Format(U32(1), U32(0), U32(0), U32(len), "V4L2_PIX_FMT_MJPEG")}
    /\ pc = "frameRead"
    /\ status = "running"
    /\ diag = "none"
    /\ fd = 3
    /\ closeCalled = FALSE
    /\ buffers = <<[start |-> mem, length |-> len, ok |-> TRUE]>>
    /\ freed = FALSE
    /\ width = U32(1)
    /\ height = U32(0)
    /\ cap = Capabilities
    /\ fmt = Format(U32(1), U32(0), U32(2), U32(len), "V4L2_PIX_FMT_MJPEG")
    /\ dev = Format(U32(1), U32(0), U32(0), U32(len), "V4L2_PIX_FMT_MJPEG")
    /\ buffer_size = U32(len)
    /\ ioctlCalls = 0
    /\ ioctlEintrs = 0
    /\ xret = NoXret
    /\ count = U32(0)
    /\ numberOfTimeouts = 0
    /\ timeouts = 0
    /\ n = 0
    /\ rerrno = "none"
    /\ nReads = 0
    /\ nPolls = 0
    /\ nReadCalls = 0
    /\ nAppends = 0
    /\ outLen = 0
    /\ lastBlock = <<>>
    /\ written = 0
    /\ scanHi = -1

NextScan == frameRead_v4l2

SpecScan == InitScan /\ [][NextScan]_vars

\* ------------------------------------------------------------ properties
\* the capture loop is running
LoopPcs == {"mainLoop", "poll", "select", "frameRead"}

\* deviceOpen has succeeded
Opened == fd # -1 \/ closeCalled

\* the frame the last successful read returned: the first n bytes of the buffer
Payload == SubSeq(buffers[1].start, 1, n)

\* the offsets of the FF D9 pairs in p
PairOffsets(p) ==
  {i \in 0..(Len(p) - 2) : p[i + 1] = EOI_FF /\ p[i + 2] = EOI_D9}

\* C1: in mjpeg-grab.c a step in which v4l2_read reports would-block
\* (EAGAIN) leaves the remaining-frame counter as it was.
C1_WouldBlockKeepsCount ==
  [][(pc = "frameRead" /\ n' = -1 /\ rerrno' = "EAGAIN") => count' = count]_vars

\* C2: in mjpeg-grab.c a run that exits with status 0 and frame_count = N
\* >= 1 has completed exactly N appends, each block is at most as long as
\* the buffer, and the output never gets shorter.
C2_ExactlyNBlocks ==
  /\ [](pc = "exited" /\ status = "EXIT_SUCCESS" /\ Lt32(U32(0), frame_count)
          => /\ nAppends = ToNat(frame_count)
             /\ Len(lastBlock) <= buffers[1].length)
  /\ [][outLen' >= outLen]_vars

\* C3: xioctl calls v4l2_ioctl again exactly when a call reported EINTR: while
\* it runs every call so far was interrupted, and when it returns after k
\* interrupted calls it has made k + 1 calls and returns the result of the
\* last one, which is a success or a failure with another errno.
C3_XioctlRetries ==
  /\ ioctlCalls = ioctlEintrs
  /\ xret.request # "none" =>
       /\ xret.calls = xret.eintrs + 1
       /\ ~(xret.r = -1 /\ xret.errno = "EINTR")

\* xioctl returned a success after two interrupted calls
C3_Witness ==
  /\ xret.request = "VIDIOC_S_FMT"
  /\ xret.r = 0
  /\ xret.eintrs = 2
  /\ xret.calls = 3

\* C4: the size handed to readInit is at least the sizeimage the device
\* reported and at least 2 * width * height, the product taken modulo 2^32.
C4_BufferFloor ==
  pc = "readInit" =>
    /\ Le32(dev.sizeimage, buffer_size)
    /\ Le32(Mul32(Mul32(U32(2), dev.width), dev.height), buffer_size)

\* C5: in v4l2grab.c every index the End-Of-Image scan reads is below the
\* number of bytes the read returned, and so below the size of the buffer.
C5_ScanWithinFrame ==
  nReads > 0 => scanHi < n /\ scanHi < buffers[1].length

\* the last read returned a frame and rawWrite has opened the file for it
FrameAppended == nReads > 0 /\ nAppends = nReads /\ n >= 0

\* C6: in v4l2grab.c, when the frame read holds exactly one FF D9 pair, at
\* offset i, the bytes rawWrite hands to fwrite are the first i + 2 bytes
\* of the frame.
C6_TrimToEoi ==
  (FrameAppended /\ Cardinality(PairOffsets(Payload)) = 1) =>
    \A i \in PairOffsets(Payload) : lastBlock = SubSeq(Payload, 1, i + 2)

\* a frame of four bytes with the pair in the middle was written as its
\* first three bytes
C6_Witness ==
  /\ nReads = 1
  /\ n = 4
  /\ Payload = <<0, EOI_FF, EOI_D9, 0>>
  /\ lastBlock = <<0, EOI_FF, EOI_D9>>
  /\ written = 3

\* C7: when the process has exited after deviceOpen succeeded, v4l2_close
\* has been called and the buffer, if allocated, has been freed.
C7_TeardownOnEveryExit ==
  (pc = "exited" /\ Opened) =>
    /\ closeCalled
    /\ buffers # <<>> => freed

\* C8: a read whose frame could not be appended, because fopen failed or
\* fwrite wrote fewer bytes than asked, ends the process with a failure
\* status and leaves the remaining-frame counter alone.
C8_WriteFailureFatal ==
  [][(pc = "frameRead" /\ n' >= 0 /\ nReads' = nReads + 1
        /\ (nAppends' = nAppends \/ written' < Len(lastBlock')))
       => (pc' = "exited" /\ status' = "EXIT_FAILURE" /\ count' = count)]_vars

\* C9: while the capture loop runs the device is open, the buffer is
\* allocated with at least the sizeimage the device reported, and the
\* negotiated pixel format is MJPEG.
C9_LoopInvariant ==
  pc \in LoopPcs =>
    /\ fd # -1
    /\ ~closeCalled
    /\ buffers # <<>>
    /\ buffers[1].ok
    /\ ~freed
    /\ buffers[1].length >= ToNat(dev.sizeimage)
    /\ dev.pixelformat = "V4L2_PIX_FMT_MJPEG"
    /\ fmt.pixelformat = "V4L2_PIX_FMT_MJPEG"

\* the loop waits for a frame with a buffer of the size the device declared
C9_Witness ==
  /\ pc = "poll"
  /\ dev.sizeimage = U32(MaxCap)
  /\ buffers[1].length = MaxCap

\* negotiation got through: both capabilities reported, MJPEG accepted
Negotiated ==
  /\ Capabilities \subseteq cap
  /\ dev.pixelformat = "V4L2_PIX_FMT_MJPEG"

\* C10: the loop is entered, and bytes are written, only after QUERYCAP
\* reported both capabilities and then S_FMT returned MJPEG; a run that ends
\* without that exits non-zero, with "is no V4L2 device" after EINVAL on
\* QUERYCAP, and has written nothing.
C10_NegotiationGuardsLoop ==
  /\ (pc \in LoopPcs \/ nAppends > 0 \/ outLen > 0 \/ nReads > 0) => Negotiated
  /\ dev.pixelformat # "none" => Capabilities \subseteq cap
  /\ (pc = "exited" /\ ~Negotiated) => status = "EXIT_FAILURE"
  /\ (pc = "exited" /\ xret.request = "VIDIOC_QUERYCAP" /\ xret.r = -1) =>
       diag = IF xret.errno = "EINVAL" THEN "is no V4L2 device"
              ELSE "VIDIOC_QUERYCAP"

\* the device answered S_FMT with another pixel format and the run failed
\* before any byte was written
C10_Witness ==
  /\ pc = "exited"
  /\ dev.pixelformat = "V4L2_PIX_FMT_YUYV"
  /\ status = "EXIT_FAILURE"
  /\ diag = "Libv4l didn't accept MJPEG format"
  /\ outLen = 0

\* the frames a run of v4l2grab.c is asked for: 1 with -s, else 30
Requested_v4l2 == IF single_frame THEN 1 ELSE DefaultCount

\* C11: a run of v4l2grab.c that exits with status 0 has appended exactly N
\* frames, N = 1 with the single flag and N = 30 without, whatever select
\* timeouts, interrupted selects and would-block reads happened on the way.
C11_ExactlyNFrames ==
  (pc = "exited" /\ status = "EXIT_SUCCESS") => nAppends = Requested_v4l2

\* the steps of deviceInit whose failure is only noted
OptionalSteps == {"VIDIOC_CROPCAP", "VIDIOC_S_CROP", "VIDIOC_S_PARM"}

\* C12: when the crop-capability query, the crop set or the frame-interval
\* set returns, failed or not, the run goes on: the query leads to the crop
\* set on success and to the format set otherwise, the crop set leads to the
\* format set, the frame-interval set leads to the buffer-size derivation,
\* and from there the buffer is allocated and the capture loop entered
\* unless memory runs out.
C12_OptionalStepsNotFatal ==
  [][/\ (pc \in OptionalSteps /\ pc' # pc) =>
          /\ status' = "running"
          /\ xret'.request = pc
          /\ pc' = IF pc = "VIDIOC_CROPCAP"
                   THEN (IF xret'.r = 0 THEN "VIDIOC_S_CROP" ELSE "VIDIOC_S_FMT")
                   ELSE IF pc = "VIDIOC_S_CROP" THEN "VIDIOC_S_FMT"
                   ELSE "paranoia"
     /\ pc = "paranoia" => pc' = "readInit" /\ status' = "running"
     /\ pc = "readInit" =>
          \/ pc' = "mainLoop" /\ status' = "running" /\ buffers'[1].ok
          \/ pc' = "exited" /\ diag' = "Out of memory"]_vars

\* the crop set failed with an error other than EINVAL and the format set
\* is next
C12_Witness ==
  /\ pc = "VIDIOC_S_FMT"
  /\ xret.request = "VIDIOC_S_CROP"
  /\ xret.r = -1
  /\ xret.errno = "EIO"
  /\ status = "running"

\* both programs side by side: each run is a run of one of them
InitBoth == Init \/ InitV4l2

NextBoth ==
  \/ prog = "mjpeg-grab" /\ Next
  \/ prog = "v4l2grab" /\ NextV4l2

SpecBoth == InitBoth /\ [][NextBoth]_vars

\* C13: in both programs a v4l2_read that fails with an errno other than
\* EAGAIN ends the process with a failure status and the diagnostic "read";
\* the step appends nothing, and the output written for earlier frames
\* stays as it was.
C13_ReadErrorFatal ==
  [][(pc = "frameRead" /\ n' = -1 /\ rerrno' # "EAGAIN") =>
        /\ pc' = "exited"
        /\ status' = "EXIT_FAILURE"
        /\ diag' = "read"
        /\ nAppends' = nAppends
        /\ outLen' = outLen
        /\ lastBlock' = lastBlock
        /\ written' = written]_vars

\* a read was interrupted by a signal after one frame had been written, and
\* the process has exited with that frame still in the file
C13_Witness ==
  /\ pc = "exited"
  /\ status = "EXIT_FAILURE"
  /\ diag = "read"
  /\ rerrno = "EINTR"
  /\ nAppends = 1
  /\ outLen > 0

\* the terminal state Failed of the capture state machine
Failed == pc = "exited" /\ status = "EXIT_FAILURE"

\* C14: with frame_count >= 1 the loop of mjpeg-grab.c moves only along the
\* transitions Idle -> Waiting (mainLoop to poll), Waiting -> Reading (poll
\* to frameRead), Reading -> Waiting on would-block, Reading -> Writing on
\* a successful read and from there to Waiting while frames remain and to
\* Done (deviceUninit) when none does, and from any state to Failed; Done
\* is entered only by a step that appended a frame.
C14_StateMachine ==
  [][Lt32(U32(0), frame_count) =>
       /\ pc = "mainLoop" => pc' = "poll"
       /\ pc = "poll" => (pc' = "frameRead" \/ Failed')
       /\ pc = "frameRead" =>
            \/ Failed'
            \/ /\ n' = -1
               /\ rerrno' = "EAGAIN"
               /\ nAppends' = nAppends
               /\ pc' = "poll"
            \/ /\ n' >= 0
               /\ nAppends' = nAppends + 1
               /\ pc' = IF Lt32(U32(0), count') THEN "poll" ELSE "deviceUninit"
       /\ (pc' = "deviceUninit" /\ pc # "deviceUninit") =>
            nAppends' = nAppends + 1]_vars

\* C15: in mjpeg-grab.c every successful read is followed, before anything
\* else happens, by one open-append-close that hands fwrite the bytes this
\* read returned and places them behind all that was written before, or by
\* the fatal "raw write" when the file cannot be opened; nothing is appended
\* and the buffer is not written to without a new successful read, so the
\* k-th append carries the k-th frame.
C15_CaptureOrder ==
  /\ [](/\ nAppends <= nReads
        /\ nReads <= nAppends + 1
        /\ nReads = nAppends + 1 => (Failed /\ diag = "raw write")
        /\ (nAppends > 0 /\ nAppends = nReads) =>
             lastBlock = SubSeq(buffers[1].start, 1, Len(lastBlock)))
  /\ [][nReads' = nReads + 1 =>
          \/ /\ Failed'
             /\ diag' = "raw write"
             /\ UNCHANGED <<nAppends, lastBlock, outLen>>
          \/ /\ nAppends' = nAppends + 1
             /\ nAppends' = nReads'
             /\ lastBlock' = Payload'
             /\ written' <= n'
             /\ outLen' = outLen + written']_vars
  /\ [][(nReads' = nReads /\ nReads > 0) =>
          UNCHANGED <<buffers, nAppends, lastBlock, outLen>>]_vars

\* two frames were read and appended one after the other, the second one
\* behind the first
C15_Witness ==
  /\ nReads = 2
  /\ nAppends = 2
  /\ n = 2
  /\ lastBlock = <<EOI_FF, EOI_D9>>
  /\ outLen = 3

\* the size the specified trim gives a frame p: up to and including its
\* first FF D9 pair, or all of it when it has none
TrimmedLen(p) ==
  IF PairOffsets(p) = {} THEN Len(p)
  ELSE (CHOOSE i \in PairOffsets(p) : \A j \in PairOffsets(p) : i <= j) + 2

\* C16: in v4l2grab.c the bytes appended for a frame are never more than
\* the n bytes the read returned: rawWrite asks fwrite for i + 2 bytes when
\* the first FF D9 pair of the frame is at offset i, and for n bytes when
\* the frame has no such pair.
C16_AppendWithinFrame ==
  FrameAppended =>
    /\ written <= n
    /\ Len(lastBlock) = TrimmedLen(Payload)

\* C17: in mjpeg-grab.c no session fails because poll was interrupted by a
\* signal: after EINTR the loop waits again, and only another poll error
\* ends the run as Failed.
C17_PollEintrNotFatal == ~(Failed /\ diag = "poll error EINTR")

\* mjpeg-grab.c on a device with one-byte frames (the calls the loop makes
\* do not depend on what a frame holds)
InitLive ==
  \E fc \in 0..MaxFrames : InitWith("mjpeg-grab", U32(fc), FALSE, TinyFormats)

\* with a process that keeps running and system calls that return:
\* mainLoop, poll and frameRead each take their step when they can
SpecLive ==
  /\ InitLive
  /\ [][Next]_vars
  /\ WF_vars(mainLoop_mjpeg)
  /\ WF_vars(Poll)
  /\ WF_vars(frameRead_mjpeg)

\* C18: in mjpeg-grab.c, when every poll returns, mainLoop ends, by
\* returning or by a fatal exit, and by then it has called poll at most
\* frame_count times and v4l2_read at most frame_count times, whatever the
\* calls reported.
C18_BoundedLoop ==
  /\ [](/\ nPolls <= ToNat(frame_count)
        /\ nReadCalls <= ToNat(frame_count)
        /\ nReadCalls <= nPolls)
  /\ (pc = "mainLoop") ~> (pc \notin LoopPcs)

\* the loop has returned after frame_count polls and as many reads, one of
\* which was a would-block
C18_Witness ==
  /\ pc = "deviceUninit"
  /\ frame_count = U32(MaxFrames)
  /\ nPolls = MaxFrames
  /\ nReadCalls = MaxFrames
  /\ nReads = MaxFrames - 1

\* the loop of v4l2grab.c is between its while test and frameRead's return
InSelectLoop == pc \in {"select", "frameRead"}

C20_TimeoutExitUnreachable ==
  /\ [](numberOfTimeouts = 0 /\ diag # "select timeout")
  /\ [][(pc = "select" /\ timeouts' = timeouts + 1) =>
          /\ status' = "running"
          /\ count' = Inc32(count)
          /\ pc' = "frameRead"]_vars

\* select has returned 0 in the only pass of a -s run: count is back at 1
\* and the read is next
C20_Witness ==
  /\ single_frame
  /\ timeouts = 1
  /\ pc = "frameRead"
  /\ count = U32(1)
  /\ status = "running"

====
